---- MODULE Spec2Model ----
(***************************************************************************)
(* The readycash client: session-credential cache and re-authentication.   *)
(*                                                                         *)
(* Time is counted in ticks of half a second, so that the conversions      *)
(* between a time.Duration / time.Time and whole seconds (the login form   *)
(* field sessionLength, the expiry persisted as Unix seconds) lose what    *)
(* the code loses.  The zero time.Time is the tick 0; the clock starts     *)
(* after it.                                                               *)
(*                                                                         *)
(* A Go string is modelled by a tuple for the values the server issues     *)
(* (NoStr is ""), and by a TLA+ string for the account's fields.           *)
(*                                                                         *)
(* The store is the Storage interface with the behaviour of a TTL cache:   *)
(* an entry is gone once its TTL has run out, a read may miss an entry     *)
(* that is there, a write may be rejected.  These faults, a failure of the *)
(* cipher and a login response without one of its headers are counted,    *)
(* and a behaviour has at most MaxFaults of them.  The login endpoint      *)
(* issues at most MaxLogins sessions and refuses after that.               *)
(*                                                                         *)
(* Each operation is a sequence of steps of the calling goroutine, one     *)
(* per access to the shared session, to the store or to the network; the   *)
(* recursive self-call on a 403 is the jump back to the first step.  The   *)
(* response body of an operation is never nil (net/http gives every        *)
(* response a body), and the base URL is well formed.                      *)
(***************************************************************************)
EXTENDS Integers, Sequences, FiniteSets, TLC

\* ---------------------------------------------------------------- bounds
MaxTime == 3
MaxLogins == 2
MaxCalls == 4
MaxFaults == 1

\* ------------------------------------------------------------- constants
TicksPerSecond == 2
StartTime == 2

StatusOK == 200
StatusCreated == 201
StatusAccepted == 202
StatusForbidden == 403
StatusUnauthorized == 401
StatusInternalServerError == 500

NoStr == <<>>

Procs == {1, 2}

Ops == {"BalanceEnquiry", "GenerateUSSD", "FetchUSSDTransaction", "FetchTransaction"}

BanksSupportedOnUssd ==
    {"057", "058", "033", "039", "232", "215", "082", "070", "050", "035",
     "044", "011", "214"}

\* the bank codes a caller passes: one on the list, one off it
BankCodes == {"044", "999"}

\* the session lifetimes an account is configured with, in ticks: 0.5 s and 1 s
SessionLengths == {1, 2}

NilAccount ==
    [isNil |-> TRUE, UserName |-> "", Password |-> "", Pin |-> "", SessionLength |-> 0]

Accounts ==
    {NilAccount} \cup
    [isNil : {FALSE}, UserName : {"", "sample"}, Password : {"", "password"},
     Pin : {"", "1234"}, SessionLength : SessionLengths]

\* the four fields of authCacheKey, in the order login reads and writes them
CacheKeys == <<"authorizationKey", "sessionIDKey", "encodedPinKey", "expirationKey">>

KeySet == {CacheKeys[i] : i \in 1..4}

EmptyAccess ==
    [authorization |-> NoStr, sessionID |-> NoStr, expiration |-> 0, encodedPin |-> NoStr]

\* an error value; NilErr is Go's nil error
Error(kind, detail) == [kind |-> kind, detail |-> detail]

NilErr == Error("nil", "")

ErrAccountCredentialsRequired == Error("ErrAccountCredentialsRequired", "")

ErrBankNotSupportedOnUSSD == Error("ErrBankNotSupportedOnUSSD", "")

\* the body of a login response that refuses the login
LoginBodies == {"denied"}

\* the error of a refused login with the response body left out
LoginFailed_NoBody(bodyString) == Error("ErrLoginFailed", "")

\* fmt.Errorf("%s %w", string(bodyString), ErrLoginFailed)
LoginFailed(bodyString) == Error("ErrLoginFailed", bodyString)

\* the statuses the login endpoint and the operation endpoints answer with
LoginStatuses == {StatusOK, StatusUnauthorized}

OpStatuses == {StatusOK, StatusForbidden, StatusInternalServerError}

\* a Go string is also modelled by a sequence of pieces, and the
\* concatenation of strings by that of the sequences; the pieces used are
\* such that two sequences spell the same string only if they are equal
baseLoginUrl == <<"/rc/rest/agent/login">>

\* what lies between the base URL and the user name in the string hashed
Separator == <<"/">> \o baseLoginUrl \o <<"/">>

\* the base URLs and user names clients are constructed with
BaseURLs == {<<"https://a">>, <<"https://b">>, <<"https://a">> \o Separator \o <<"u">>}

UserNames == {<<"u">>, <<"v">>, <<"u">> \o Separator \o <<"v">>}

NoKeys == <<>>

\* the string a racing access reads or leaves: the pointer of one value
\* with the length of another
Torn == <<"torn">>

\* the instants a racing access to a time.Time reads or leaves (the words
\* of two instants mixed): one long past, one far ahead
TornTimes == {1, MaxTime + 3}

\* the clients whose cache keys are compared
Clients == {1, 2}

VARIABLES
    now,        \* the wall clock, in ticks
    client,     \* "nil" before a successful NewClient, "ok" after
    made,       \* the last NewClient call: the account passed, the client and error returned
    account,    \* r.account
    access,     \* r.access
    storage,    \* the entries of r.storage under the four cache keys
    issued,     \* the number of sessions the login endpoint has issued
    faults,     \* the number of faults of the store, the cipher and the login response so far
    pc,         \* the position of each calling goroutine
    op,         \* the operation each goroutine is in
    fresh,      \* whether the call began with an empty session and an empty store
    resp,       \* the login response a goroutine holds (res.Header)
    req,        \* the request a goroutine has built (its auth headers)
    err,        \* what ensureUserIsAuthenticated returned to the goroutine
    ret,        \* what the operation returned to its caller
    events,     \* per goroutine: the store and HTTP calls of the current call
    derived,    \* for two clients: base URL, user name, and the cache keys once derived
    bank        \* per goroutine: the bank code passed to GenerateUSSD, "" otherwise

vars ==
    <<now, client, made, account, access, storage, issued, faults,
      pc, op, fresh, resp, req, err, ret, events, derived, bank>>

procVars == <<pc, op, fresh, resp, req, err, ret, events>>

\* ------------------------------------------------------- pure functions

\* hasExpired with the expiry instant itself taken as expired
hasExpired_AtExpiry(p, t) ==
    IF p.expiration = 0 THEN TRUE
    ELSE IF p.sessionID = NoStr \/ p.authorization = NoStr \/ p.encodedPin = NoStr THEN TRUE
    ELSE t >= p.expiration

\* hasExpired with an empty encrypted PIN let through
hasExpired_PinIgnored(p, t) ==
    IF p.expiration = 0 THEN TRUE
    ELSE IF p.sessionID = NoStr \/ p.authorization = NoStr THEN TRUE
    ELSE t > p.expiration

\* authParams.hasExpired at the instant t
hasExpired(p, t) ==
    IF p.expiration = 0 THEN TRUE
    ELSE IF p.sessionID = NoStr \/ p.authorization = NoStr \/ p.encodedPin = NoStr THEN TRUE
    ELSE t > p.expiration

\* reset with the expiry left as it is
reset_KeepsExpiry(p) ==
    [p EXCEPT !.authorization = NoStr, !.encodedPin = NoStr, !.sessionID = NoStr]

\* authParams.reset
reset(p) ==
    [p EXCEPT !.authorization = NoStr, !.encodedPin = NoStr,
              !.sessionID = NoStr, !.expiration = 0]

\* Client.successCode
successCode(statusCode) ==
    statusCode = StatusOK \/ statusCode = StatusCreated \/ statusCode = StatusAccepted

\* IsBankSupportedOnUSSD: the loop variable shadows the parameter, so each
\* key of the map is compared with itself
IsBankSupportedOnUSSD(bankCode) ==
    \E code \in BanksSupportedOnUssd : code = code

\* the Cipher Primitive: the ciphertext of pin under key, or a failure
DesEncrypt(pin, key, succeeds) ==
    IF succeeds THEN [hexStr |-> <<"des", pin, key>>, err |-> NilErr]
    ELSE [hexStr |-> NoStr, err |-> Error("EncryptionFailure", "")]

\* setPin with the error of the cipher dropped
setPin_ErrorDropped(p, pin, key, succeeds) ==
    LET e == DesEncrypt(pin, key, succeeds)
    IN  [access |-> [p EXCEPT !.encodedPin = e.hexStr], err |-> NilErr]

\* authParams.setPin: the ciphertext is stored whether or not encryption failed
setPin(p, pin, key, succeeds) ==
    LET e == DesEncrypt(pin, key, succeeds)
    IN  [access |-> [p EXCEPT !.encodedPin = e.hexStr], err |-> e.err]

\* int64(d.Seconds()) of a non-negative time.Duration d
Seconds(d) == d \div TicksPerSecond

\* t.Unix() of a time.Time t
Unix(t) == t \div TicksPerSecond

\* the seconds read from the store taken as they are for the instant
TimeUnix_Raw(sec) == sec

\* time.Unix(sec, 0)
TimeUnix(sec) == sec * TicksPerSecond

\* the value a Get returns on a miss: "" for GetString, 0 for GetInt
ZeroOf(key) == IF key = "expirationKey" THEN 0 ELSE NoStr

\* an entry the store does not hold
NoEntry(key) == [ok |-> FALSE, val |-> ZeroOf(key), until |-> 0]

\* Storage.GetString / GetInt: an error when the store holds nothing
\* under the key, and when the read misses for another reason (the cache
\* evicted the entry, the store failed)
StorageGet(st, key, misses) ==
    IF misses \/ ~st[key].ok THEN [ok |-> FALSE, val |-> ZeroOf(key)]
    ELSE [ok |-> TRUE, val |-> st[key].val]

\* the store at the instant t: the entries whose TTL has run out are gone
StorageExpire(st, t) ==
    [k \in DOMAIN st |-> IF st[k].ok /\ t >= st[k].until THEN NoEntry(k) ELSE st[k]]

\* Storage.SetStringFor / SetIntFor at the instant t, when the store
\* accepts the write
StorageSet(st, key, val, t, exp) ==
    [st EXCEPT ![key] = [ok |-> TRUE, val |-> val, until |-> t + exp]]

\* the form with the duration itself as sessionLength, not its seconds
loginPayload_RawDuration(acct) ==
    [userName |-> acct.UserName, password |-> acct.Password,
     sessionLength |-> acct.SessionLength]

\* the form login posts
loginPayload(acct) ==
    [userName |-> acct.UserName, password |-> acct.Password,
     sessionLength |-> Seconds(acct.SessionLength)]

\* the headers without the session id
appendAuthHeaders_NoSessionID(a) ==
    [Authorization |-> a.authorization, XSessionID |-> NoStr]

\* Client.appendAuthHeaders
appendAuthHeaders(a) ==
    [Authorization |-> a.authorization, XSessionID |-> a.sessionID]

NoReq == [Authorization |-> NoStr, XSessionID |-> NoStr]

\* md5.New().Sum(b): the digest of what was written to the hash, which is
\* nothing, appended to b
Md5Sum(b) == b \o <<"d41d8cd98f00b204e9800998ecf8427e">>

\* fmt.Sprintf("%x", b): the hexadecimal digits of each piece, in order
Hex(b) == [i \in 1..Len(b) |-> <<"%x", b[i]>>]

\* Client.makeAuthCacheKeys
makeAuthCacheKeys(baseURL, userName) ==
    LET baseCacheKey == Hex(Md5Sum(baseURL \o <<"/">> \o baseLoginUrl \o <<"/">> \o userName))
    IN  [authorizationKey |-> baseCacheKey \o <<"-auth-token">>,
         sessionIDKey |-> baseCacheKey \o <<"-session-id">>,
         expirationKey |-> baseCacheKey \o <<"-auth-expiration">>,
         encodedPinKey |-> baseCacheKey \o <<"-auth-encoded-pin">>]

NoRet == [val |-> "none", err |-> NilErr]

Failure(e) == [val |-> "nil", err |-> e]

Success == [val |-> "result", err |-> NilErr]

Event(kind, arg, res) == [kind |-> kind, arg |-> arg, res |-> res]

IsHttp(e) == e.kind \in {"login", "op"}

\* the HTTP calls in a log
HttpCalls(log) == SelectSeq(log, IsHttp)

\* what is observed of goroutine p's current call: its HTTP calls (the
\* first MaxCalls of them) and, in between, the store calls of its current
\* attempt
Record(p, e) ==
    events' = [events EXCEPT ![p] =
                 IF IsHttp(e) /\ Len(HttpCalls(@)) >= MaxCalls THEN @ ELSE Append(@, e)]

\* --------------------------------------------------------------- states

Init ==
    /\ now = StartTime
    /\ client = "nil"
    /\ made = [account |-> NilAccount, client |-> "none", err |-> NilErr]
    /\ account = NilAccount
    /\ access = EmptyAccess
    /\ storage = [k \in KeySet |-> NoEntry(k)]
    /\ issued = 0
    /\ faults = 0
    /\ pc = [p \in Procs |-> IF p = 1 THEN "idle" ELSE "off"]
    /\ op = [p \in Procs |-> "none"]
    /\ fresh = [p \in Procs |-> FALSE]
    /\ resp = [p \in Procs |-> NoReq]
    /\ req = [p \in Procs |-> NoReq]
    /\ err = [p \in Procs |-> NilErr]
    /\ ret = [p \in Procs |-> NoRet]
    /\ events = [p \in Procs |-> <<>>]
    /\ derived = [c \in Clients |-> [baseURL |-> <<"https://a">>, userName |-> <<"u">>, keys |-> NoKeys]]
    /\ bank = [p \in Procs |-> ""]

\* ------------------------------------------------------ the data race
\* r.access is read and written by every goroutine with no lock.  The
\* goroutines interleave access by access; an access to a field that can
\* run at the same time as a write of that field by another goroutine is
\* a data race, and may read, or leave, a torn value.

\* the field of r.access read from, and written under, a cache key
FieldOf(key) ==
    IF key = "authorizationKey" THEN "authorization"
    ELSE IF key = "sessionIDKey" THEN "sessionID"
    ELSE IF key = "encodedPinKey" THEN "encodedPin"
    ELSE "expiration"

\* whether a value read from the store under the key replaces the field
Taken(key, r) ==
    r.ok /\ (IF key = "expirationKey" THEN r.val > 0 ELSE r.val # NoStr)

\* the fields of r.access the next step of goroutine q can write
Writes(q) ==
    IF pc[q] = "setAuthorization" THEN {"authorization"}
    ELSE IF pc[q] = "setSessionID" THEN {"sessionID"}
    ELSE IF pc[q] = "setPin" THEN {"encodedPin"}
    ELSE IF pc[q] = "setExpiration" THEN {"expiration"}
    ELSE IF pc[q] = "getAuthorization" /\ Taken("authorizationKey", storage["authorizationKey"])
         THEN {"authorization"}
    ELSE IF pc[q] = "getSessionID" /\ Taken("sessionIDKey", storage["sessionIDKey"])
         THEN {"sessionID"}
    ELSE IF pc[q] = "getEncodedPin" /\ Taken("encodedPinKey", storage["encodedPinKey"])
         THEN {"encodedPin"}
    ELSE IF pc[q] = "getExpiration" /\ Taken("expirationKey", storage["expirationKey"])
         THEN {"expiration"}
    ELSE IF pc[q] = "reset" THEN {"authorization", "sessionID", "encodedPin", "expiration"}
    ELSE {}

\* an access of goroutine p to the field races with a write of another
Racing(p, field) == \E q \in Procs \ {p} : field \in Writes(q)

TornOf(field) == IF field = "expiration" THEN TornTimes ELSE {Torn}

\* what goroutine p may read from the field
Load(p, field) ==
    {access[field]} \cup (IF Racing(p, field) THEN TornOf(field) ELSE {})

\* what a write of v to the field by goroutine p may leave there
Stored(p, field, v) ==
    {v} \cup (IF Racing(p, field) THEN TornOf(field) ELSE {})

\* r.access as goroutine p may read it
Seen(p) ==
    [authorization : Load(p, "authorization"), sessionID : Load(p, "sessionID"),
     expiration : Load(p, "expiration"), encodedPin : Load(p, "encodedPin")]

\* -------------------------------------------------------------- actions

\* NewClient without the test of the password
NewClient_NoPasswordTest(acct) ==
    /\ \A p \in Procs : pc[p] \in {"idle", "off"}
    /\ client = "nil" \/ acct = account
    /\ IF acct.isNil \/ acct.Pin = "" \/ acct.UserName = ""
       THEN /\ made' = [account |-> acct, client |-> "nil", err |-> ErrAccountCredentialsRequired]
            /\ UNCHANGED <<client, account, access>>
       ELSE /\ made' = [account |-> acct, client |-> "ok", err |-> NilErr]
            /\ client' = "ok"
            /\ account' = acct
            /\ access' = EmptyAccess
    /\ UNCHANGED <<derived, bank, now, storage, issued, faults, procVars>>

\* NewClient(account, baseUrl, storage, httpClient), called while no
\* operation is running: the first construction, with any account, or a
\* later one with the same account, base URL and store, whose fresh client
\* replaces the one in use
NewClient(acct) ==
    /\ \A p \in Procs : pc[p] \in {"idle", "off"}
    /\ client = "nil" \/ acct = account
    /\ IF acct.isNil \/ acct.Pin = "" \/ acct.UserName = "" \/ acct.Password = ""
       THEN /\ made' = [account |-> acct, client |-> "nil", err |-> ErrAccountCredentialsRequired]
            /\ UNCHANGED <<client, account, access>>
       ELSE /\ made' = [account |-> acct, client |-> "ok", err |-> NilErr]
            /\ client' = "ok"
            /\ account' = acct
            /\ access' = EmptyAccess
    /\ UNCHANGED <<derived, bank, now, storage, issued, faults, procVars>>

\* a caller invokes one of the four operations; GenerateUSSD checks the
\* bank code before anything else
Call(p) ==
    /\ pc[p] = "idle"
    /\ client = "ok"
    /\ \E o \in Ops, bankCode \in BankCodes :
         /\ op' = [op EXCEPT ![p] = o]
         /\ bank' = [bank EXCEPT ![p] = IF o = "GenerateUSSD" THEN bankCode ELSE ""]
         /\ IF o = "GenerateUSSD" /\ ~IsBankSupportedOnUSSD(bankCode)
            THEN /\ ret' = [ret EXCEPT ![p] = Failure(ErrBankNotSupportedOnUSSD)]
                 /\ pc' = [pc EXCEPT ![p] = "done"]
            ELSE /\ ret' = [ret EXCEPT ![p] = NoRet]
                 /\ pc' = [pc EXCEPT ![p] = "ensure"]
    /\ fresh' = [fresh EXCEPT ![p] = access = EmptyAccess /\ \A k \in KeySet : ~storage[k].ok]
    /\ events' = [events EXCEPT ![p] = <<>>]
    /\ err' = [err EXCEPT ![p] = NilErr]
    /\ req' = [req EXCEPT ![p] = NoReq]
    /\ UNCHANGED <<derived, now, client, made, account, access, storage, issued, faults, resp>>

\* the operation going on whatever ensureUserIsAuthenticated returned
Ensured_ErrorIgnored(p, e) ==
    /\ err' = [err EXCEPT ![p] = e]
    /\ pc' = [pc EXCEPT ![p] = "build"]
    /\ UNCHANGED ret

\* ensureUserIsAuthenticated returns e to the operation, which returns
\* the error to its caller or goes on to build its request
Ensured(p, e) ==
    /\ err' = [err EXCEPT ![p] = e]
    /\ IF e # NilErr
       THEN /\ ret' = [ret EXCEPT ![p] = Failure(e)]
            /\ pc' = [pc EXCEPT ![p] = "done"]
       ELSE /\ pc' = [pc EXCEPT ![p] = "build"]
            /\ UNCHANGED ret

\* ensureUserIsAuthenticated calling login whatever the session is
Ensure_AlwaysLogin(p) ==
    /\ pc[p] = "ensure"
    /\ pc' = [pc EXCEPT ![p] = "getAuthorization"]
    /\ UNCHANGED <<err, ret>>
    /\ UNCHANGED <<derived, bank, now, client, made, account, access, storage, issued, faults, op, fresh, resp, req, events>>

\* ensureUserIsAuthenticated: login only if the session has expired
Ensure(p) ==
    /\ pc[p] = "ensure"
    /\ \E a \in Seen(p) :
         IF hasExpired(a, now)
         THEN /\ pc' = [pc EXCEPT ![p] = "getAuthorization"]
              /\ UNCHANGED <<err, ret>>
         ELSE Ensured(p, NilErr)
    /\ UNCHANGED <<derived, bank, now, client, made, account, access, storage, issued, faults, op, fresh, resp, req, events>>

\* the reads with the encrypted PIN never taken from the store
Hydrate_PinNotTaken(p, at, key, next) ==
    /\ pc[p] = at
    /\ \E misses \in BOOLEAN :
         LET r == StorageGet(storage, key, misses)
         IN  /\ misses => storage[key].ok /\ faults < MaxFaults
             /\ faults' = IF misses THEN faults + 1 ELSE faults
             /\ access' =
                  IF ~r.ok THEN access
                  ELSE IF key = "authorizationKey" /\ r.val # NoStr
                       THEN [access EXCEPT !.authorization = r.val]
                  ELSE IF key = "sessionIDKey" /\ r.val # NoStr
                       THEN [access EXCEPT !.sessionID = r.val]
                  ELSE IF key = "expirationKey" /\ r.val > 0
                       THEN [access EXCEPT !.expiration = TimeUnix(r.val)]
                  ELSE access
             /\ Record(p, Event("get", key, r))
    /\ pc' = [pc EXCEPT ![p] = next]
    /\ UNCHANGED <<derived, bank, now, client, made, account, storage, issued, op, fresh, resp, req, err, ret>>

\* the reads with a miss clearing the field in memory
Hydrate_MissClears(p, at, key, next) ==
    /\ pc[p] = at
    /\ \E misses \in BOOLEAN :
         LET r == StorageGet(storage, key, misses)
         IN  /\ misses => storage[key].ok /\ faults < MaxFaults
             /\ faults' = IF misses THEN faults + 1 ELSE faults
             /\ access' =
                  IF key = "authorizationKey" /\ (~r.ok \/ r.val # NoStr)
                       THEN [access EXCEPT !.authorization = r.val]
                  ELSE IF key = "sessionIDKey" /\ (~r.ok \/ r.val # NoStr)
                       THEN [access EXCEPT !.sessionID = r.val]
                  ELSE IF key = "encodedPinKey" /\ (~r.ok \/ r.val # NoStr)
                       THEN [access EXCEPT !.encodedPin = r.val]
                  ELSE IF key = "expirationKey" /\ (~r.ok \/ r.val > 0)
                       THEN [access EXCEPT !.expiration = TimeUnix(r.val)]
                  ELSE access
             /\ Record(p, Event("get", key, r))
    /\ pc' = [pc EXCEPT ![p] = next]
    /\ UNCHANGED <<derived, bank, now, client, made, account, storage, issued, op, fresh, resp, req, err, ret>>

\* one of login's four reads of the store: the field is replaced only by
\* a value read without error that is not "" (not 0 for the expiry)
Hydrate(p, at, key, next) ==
    /\ pc[p] = at
    /\ \E misses \in BOOLEAN :
         LET r == StorageGet(storage, key, misses)
         IN  /\ misses => storage[key].ok /\ faults < MaxFaults
             /\ faults' = IF misses THEN faults + 1 ELSE faults
             /\ IF ~r.ok THEN access' = access
                ELSE IF key = "authorizationKey" /\ r.val # NoStr
                     THEN \E w \in Stored(p, "authorization", r.val) :
                            access' = [access EXCEPT !.authorization = w]
                ELSE IF key = "sessionIDKey" /\ r.val # NoStr
                     THEN \E w \in Stored(p, "sessionID", r.val) :
                            access' = [access EXCEPT !.sessionID = w]
                ELSE IF key = "encodedPinKey" /\ r.val # NoStr
                     THEN \E w \in Stored(p, "encodedPin", r.val) :
                            access' = [access EXCEPT !.encodedPin = w]
                ELSE IF key = "expirationKey" /\ r.val > 0
                     THEN \E w \in Stored(p, "expiration", TimeUnix(r.val)) :
                            access' = [access EXCEPT !.expiration = w]
                ELSE access' = access
             /\ Record(p, Event("get", key, r))
    /\ pc' = [pc EXCEPT ![p] = next]
    /\ UNCHANGED <<derived, bank, now, client, made, account, storage, issued, op, fresh, resp, req, err, ret>>

GetAuthorization(p) == Hydrate(p, "getAuthorization", "authorizationKey", "getSessionID")

GetSessionID(p) == Hydrate(p, "getSessionID", "sessionIDKey", "getEncodedPin")

GetEncodedPin(p) == Hydrate(p, "getEncodedPin", "encodedPinKey", "getExpiration")

GetExpiration(p) == Hydrate(p, "getExpiration", "expirationKey", "check")

\* login's test after hydration: return nil if the session is now valid
Check(p) ==
    /\ pc[p] = "check"
    /\ \E a \in Seen(p) :
         IF ~hasExpired(a, now)
         THEN Ensured(p, NilErr)
         ELSE /\ pc' = [pc EXCEPT ![p] = "post"]
              /\ UNCHANGED <<err, ret>>
    /\ UNCHANGED <<derived, bank, now, client, made, account, access, storage, issued, faults, op, fresh, resp, req, events>>

\* login's POST of the form to the login endpoint, and what comes back: a
\* transport failure, a refusal, or a session (the endpoint issues at most
\* MaxLogins sessions), whose headers may lack either value
Post(p) ==
    /\ pc[p] = "post"
    /\ \/ /\ Record(p, Event("login", loginPayload(account), 0))
          /\ Ensured(p, Error("transport", ""))
          /\ UNCHANGED <<issued, faults, resp>>
       \/ \E status \in LoginStatuses, body \in LoginBodies :
            /\ ~successCode(status)
            /\ Record(p, Event("login", loginPayload(account), status))
            /\ Ensured(p, LoginFailed(body))
            /\ UNCHANGED <<issued, faults, resp>>
       \/ \E status \in LoginStatuses, lacks \in {"nothing", "Authorization", "X-SessionID"} :
            /\ successCode(status)
            /\ issued < MaxLogins
            /\ lacks # "nothing" => faults < MaxFaults
            /\ faults' = IF lacks # "nothing" THEN faults + 1 ELSE faults
            /\ issued' = issued + 1
            /\ Record(p, Event("login", loginPayload(account), status))
            /\ resp' = [resp EXCEPT ![p] =
                   [Authorization |-> IF lacks # "Authorization" THEN <<"Bearer", issued + 1>> ELSE NoStr,
                    XSessionID |-> IF lacks # "X-SessionID" THEN <<"session", issued + 1>> ELSE NoStr]]
            /\ pc' = [pc EXCEPT ![p] = "setAuthorization"]
            /\ UNCHANGED <<err, ret>>
    /\ UNCHANGED <<derived, bank, now, client, made, account, access, storage, op, fresh, req>>

\* r.access.authorization = res.Header.Get("Authorization")
SetAuthorization(p) ==
    /\ pc[p] = "setAuthorization"
    /\ \E w \in Stored(p, "authorization", resp[p].Authorization) :
         access' = [access EXCEPT !.authorization = w]
    /\ pc' = [pc EXCEPT ![p] = "setSessionID"]
    /\ UNCHANGED <<derived, bank, now, client, made, account, storage, issued, faults, op, fresh, resp, req, err, ret, events>>

\* r.access.sessionID = res.Header.Get("X-SessionID")
SetSessionID(p) ==
    /\ pc[p] = "setSessionID"
    /\ \E w \in Stored(p, "sessionID", resp[p].XSessionID) :
         access' = [access EXCEPT !.sessionID = w]
    /\ pc' = [pc EXCEPT ![p] = "setPin"]
    /\ UNCHANGED <<derived, bank, now, client, made, account, storage, issued, faults, op, fresh, resp, req, err, ret, events>>

\* r.access.setPin(r.account.Pin, r.access.sessionID)
SetPin(p) ==
    /\ pc[p] = "setPin"
    /\ \E succeeds \in BOOLEAN, key \in Load(p, "sessionID") :
         LET r == setPin(access, account.Pin, key, succeeds)
         IN  /\ ~succeeds => faults < MaxFaults
             /\ faults' = IF succeeds THEN faults ELSE faults + 1
             /\ \E w \in Stored(p, "encodedPin", r.access.encodedPin) :
                  access' = [access EXCEPT !.encodedPin = w]
             /\ IF r.err # NilErr
                THEN Ensured(p, r.err)
                ELSE /\ pc' = [pc EXCEPT ![p] = "setExpiration"]
                     /\ UNCHANGED <<err, ret>>
    /\ resp' = [resp EXCEPT ![p] = NoReq]
    /\ UNCHANGED <<derived, bank, now, client, made, account, storage, issued, op, fresh, req, events>>

\* r.access.expiration = time.Now().Add(r.account.SessionLength)
SetExpiration(p) ==
    /\ pc[p] = "setExpiration"
    /\ \E w \in Stored(p, "expiration", now + account.SessionLength) :
         access' = [access EXCEPT !.expiration = w]
    /\ pc' = [pc EXCEPT ![p] = "putAuthorization"]
    /\ UNCHANGED <<derived, bank, now, client, made, account, storage, issued, faults, op, fresh, resp, req, err, ret, events>>

\* the values written with the expiry as the instant itself, not its seconds
Persisted_RawExpiry(a, key) ==
    IF key = "authorizationKey" THEN a.authorization
    ELSE IF key = "sessionIDKey" THEN a.sessionID
    ELSE IF key = "encodedPinKey" THEN a.encodedPin
    ELSE a.expiration

\* the value login writes under a cache key
Persisted(a, key) ==
    IF key = "authorizationKey" THEN a.authorization
    ELSE IF key = "sessionIDKey" THEN a.sessionID
    ELSE IF key = "encodedPinKey" THEN a.encodedPin
    ELSE Unix(a.expiration)

\* the writes to a store that rejects a write to a key it holds
Persist_NoOverwrite(p, at, key, next) ==
    /\ pc[p] = at
    /\ \E a \in Seen(p) :
         /\ Record(p, Event("set", <<key, Persisted(a, key), account.SessionLength>>, ~storage[key].ok))
         /\ IF ~storage[key].ok
            THEN /\ storage' = StorageSet(storage, key, Persisted(a, key), now, account.SessionLength)
                 /\ IF next = "return"
                    THEN Ensured(p, NilErr)
                    ELSE /\ pc' = [pc EXCEPT ![p] = next]
                         /\ UNCHANGED <<err, ret>>
            ELSE /\ Ensured(p, Error("StorageFailure", ""))
                 /\ UNCHANGED storage
    /\ UNCHANGED <<derived, bank, now, client, made, account, access, issued, faults, op, fresh, resp, req>>

\* the writes with a rejected write passed over
Persist_GoesOn(p, at, key, next) ==
    /\ pc[p] = at
    /\ \E accepted \in BOOLEAN :
         /\ ~accepted => faults < MaxFaults
         /\ faults' = IF accepted THEN faults ELSE faults + 1
         /\ Record(p, Event("set", <<key, Persisted(access, key), account.SessionLength>>, accepted))
         /\ storage' = IF accepted
                       THEN StorageSet(storage, key, Persisted(access, key), now, account.SessionLength)
                       ELSE storage
         /\ IF next = "return"
            THEN Ensured(p, NilErr)
            ELSE /\ pc' = [pc EXCEPT ![p] = next]
                 /\ UNCHANGED <<err, ret>>
    /\ UNCHANGED <<derived, bank, now, client, made, account, access, issued, op, fresh, resp, req>>

\* one of login's four writes to the store, with TTL SessionLength; a
\* write the store rejects ends login with that error
Persist(p, at, key, next) ==
    /\ pc[p] = at
    /\ \E accepted \in BOOLEAN, a \in Seen(p) :
         /\ ~accepted => faults < MaxFaults
         /\ faults' = IF accepted THEN faults ELSE faults + 1
         /\ Record(p, Event("set", <<key, Persisted(a, key), account.SessionLength>>, accepted))
         /\ IF accepted
            THEN /\ storage' = StorageSet(storage, key, Persisted(a, key), now, account.SessionLength)
                 /\ IF next = "return"
                    THEN Ensured(p, NilErr)
                    ELSE /\ pc' = [pc EXCEPT ![p] = next]
                         /\ UNCHANGED <<err, ret>>
            ELSE /\ Ensured(p, Error("StorageFailure", ""))
                 /\ UNCHANGED storage
    /\ UNCHANGED <<derived, bank, now, client, made, account, access, issued, op, fresh, resp, req>>

PutAuthorization(p) == Persist(p, "putAuthorization", "authorizationKey", "putSessionID")

\* login going past the write of the session id
PutSessionID_Skipped(p) ==
    /\ pc[p] = "putSessionID"
    /\ pc' = [pc EXCEPT ![p] = "putEncodedPin"]
    /\ UNCHANGED <<derived, bank, now, client, made, account, access, storage, issued, faults,
                   op, fresh, resp, req, err, ret, events>>

PutSessionID(p) == Persist(p, "putSessionID", "sessionIDKey", "putEncodedPin")

PutEncodedPin(p) == Persist(p, "putEncodedPin", "encodedPinKey", "putExpiration")

PutExpiration(p) == Persist(p, "putExpiration", "expirationKey", "return")

\* the operations that reset the session and call themselves on a 403
RetriesOnForbidden(o) == o \in {"BalanceEnquiry", "FetchTransaction"}

\* the operation builds its request (GenerateUSSD first encodes its
\* payload, which can fail); newRequest attaches the auth headers
Build(p) ==
    /\ pc[p] = "build"
    /\ \E encodes \in BOOLEAN :
         IF op[p] = "GenerateUSSD" /\ ~encodes
         THEN /\ ret' = [ret EXCEPT ![p] = Failure(Error("payload", ""))]
              /\ pc' = [pc EXCEPT ![p] = "done"]
              /\ UNCHANGED req
         ELSE /\ \E a \in Seen(p) : req' = [req EXCEPT ![p] = appendAuthHeaders(a)]
              /\ pc' = [pc EXCEPT ![p] = "send"]
              /\ UNCHANGED ret
    /\ UNCHANGED <<derived, bank, now, client, made, account, access, storage, issued, faults, op, fresh, resp, err, events>>

\* doRequest and the operation's handling of the answer
Send(p) ==
    /\ pc[p] = "send"
    /\ \/ /\ Record(p, Event("op", [op |-> op[p], headers |-> req[p]], 0))
          /\ ret' = [ret EXCEPT ![p] = Failure(Error("transport", ""))]
          /\ pc' = [pc EXCEPT ![p] = "done"]
       \/ \E statusCode \in OpStatuses, decodes \in BOOLEAN :
            /\ Record(p, Event("op", [op |-> op[p], headers |-> req[p]], statusCode))
            /\ IF RetriesOnForbidden(op[p]) /\ statusCode = StatusForbidden
               THEN /\ pc' = [pc EXCEPT ![p] = "reset"]
                    /\ UNCHANGED ret
               ELSE /\ pc' = [pc EXCEPT ![p] = "done"]
                    /\ ret' = [ret EXCEPT ![p] =
                           IF ~successCode(statusCode) THEN Failure(Error("RemoteError", ""))
                           ELSE IF decodes THEN Success
                           ELSE Failure(Error("decode", ""))]
    /\ UNCHANGED <<derived, bank, now, client, made, account, access, storage, issued, faults, op, fresh, resp, req, err>>

\* the reset taking the entries of the store with it
Reset_ClearsStore(p) ==
    /\ pc[p] = "reset"
    /\ access' = reset(access)
    /\ storage' = [k \in KeySet |-> NoEntry(k)]
    /\ pc' = [pc EXCEPT ![p] = "ensure"]
    /\ events' = [events EXCEPT ![p] = HttpCalls(@)]
    /\ UNCHANGED <<derived, bank, now, client, made, account, issued, faults, op, fresh, resp, req, err, ret>>

\* r.access.reset() followed by the operation calling itself
Reset(p) ==
    /\ pc[p] = "reset"
    /\ access' \in [authorization : Stored(p, "authorization", reset(access).authorization),
                    sessionID : Stored(p, "sessionID", reset(access).sessionID),
                    expiration : Stored(p, "expiration", reset(access).expiration),
                    encodedPin : Stored(p, "encodedPin", reset(access).encodedPin)]
    /\ pc' = [pc EXCEPT ![p] = "ensure"]
    /\ events' = [events EXCEPT ![p] = HttpCalls(@)]
    /\ UNCHANGED <<derived, bank, now, client, made, account, storage, issued, faults, op, fresh, resp, req, err, ret>>

\* the operation returns to its caller, and its frame is gone
Return(p) ==
    /\ pc[p] = "done"
    /\ pc' = [pc EXCEPT ![p] = "idle"]
    /\ op' = [op EXCEPT ![p] = "none"]
    /\ fresh' = [fresh EXCEPT ![p] = FALSE]
    /\ req' = [req EXCEPT ![p] = NoReq]
    /\ err' = [err EXCEPT ![p] = NilErr]
    /\ ret' = [ret EXCEPT ![p] = NoRet]
    /\ events' = [events EXCEPT ![p] = <<>>]
    /\ bank' = [bank EXCEPT ![p] = ""]
    /\ UNCHANGED <<derived, now, client, made, account, access, storage, issued, faults, resp>>

\* time passes, and the store's timers fire
Tick ==
    /\ now < MaxTime
    /\ now' = now + 1
    /\ storage' = StorageExpire(storage, now + 1)
    /\ UNCHANGED <<derived, bank, client, made, account, access, issued, faults, procVars>>

Step(p) ==
    \/ Call(p)
    \/ Ensure(p)
    \/ GetAuthorization(p)
    \/ GetSessionID(p)
    \/ GetEncodedPin(p)
    \/ GetExpiration(p)
    \/ Check(p)
    \/ Post(p)
    \/ SetAuthorization(p)
    \/ SetSessionID(p)
    \/ SetPin(p)
    \/ SetExpiration(p)
    \/ PutAuthorization(p)
    \/ PutSessionID(p)
    \/ PutEncodedPin(p)
    \/ PutExpiration(p)
    \/ Build(p)
    \/ Send(p)
    \/ Reset(p)
    \/ Return(p)

Next ==
    \/ \E acct \in Accounts : NewClient(acct)
    \/ \E p \in Procs : Step(p)
    \/ Tick

Spec == Init /\ [][Next]_vars

\* the goroutines get to run, and the services answer
FairSpec == Spec /\ \A p \in Procs : WF_vars(Step(p))

\* ------------------------------------------------------- observations

Last(log) == log[Len(log)]

IsOp(e) == e.kind = "op"

IsLogin(e) == e.kind = "login"

\* the operation requests goroutine p has sent in its current call
OpRequests(p) == SelectSeq(events[p], IsOp)

\* the kinds of a log's entries, in order
Kinds(log) == [i \in 1..Len(log) |-> log[i].kind]

\* the results (statuses) of a log's entries, in order
Results(log) == [i \in 1..Len(log) |-> log[i].res]

\* in this step goroutine p's operation request was answered with status
Answered(p, status) ==
    /\ pc[p] = "send"
    /\ events'[p] # events[p]
    /\ Last(events'[p]).res = status

\* --------------------------------------------------------------- claims

\* C1: whichever of the four operations it is, when the operation request
\* is answered with HTTP 403 the client goes on to reset the Session State
\* (all four fields cleared) and re-invokes the operation from
\* ensureUserIsAuthenticated.
C1_ForbiddenResetsAndRetries ==
    [][\A p \in Procs :
         /\ Answered(p, StatusForbidden) => pc'[p] = "reset"
         /\ (pc[p] = "reset" /\ pc'[p] # "reset") =>
               (access' = EmptyAccess /\ pc'[p] = "ensure")]_vars

\* C2: in one logical call the operation request is sent at most twice.
C2_AtMostTwoRequests ==
    \A p \in Procs : Len(OpRequests(p)) <= 2

\* C3: BalanceEnquiry on a fresh client with an empty store, answered 403
\* and then 200 (with a body that decodes): the HTTP calls are exactly
\* login, balance, login, balance, and the call succeeds.
C3_OneReloginBetween ==
    \A p \in Procs :
        ( /\ pc[p] = "done"
          /\ fresh[p]
          /\ op[p] = "BalanceEnquiry"
          /\ Results(OpRequests(p)) = <<StatusForbidden, StatusOK>>
          /\ ret[p].err.kind # "decode" )
        => /\ Kinds(HttpCalls(events[p])) = <<"login", "op", "login", "op">>
           /\ ret[p] = Success

\* C4: every call of an operation terminates: a goroutine that is inside a
\* call eventually has its result.
C4_EveryCallTerminates ==
    \A p \in Procs : (pc[p] \notin {"idle", "off", "done"}) ~> (pc[p] = "done")

\* the specification of the validity test alone: a client about to run
\* ensureUserIsAuthenticated, its session any combination of empty and set
\* fields, the clock anywhere
SessionInit ==
    /\ now \in StartTime..MaxTime
    /\ client = "ok"
    /\ account = [isNil |-> FALSE, UserName |-> "sample", Password |-> "password",
                  Pin |-> "1234", SessionLength |-> 2]
    /\ made = [account |-> account, client |-> "ok", err |-> NilErr]
    /\ access \in [authorization : {NoStr, <<"Bearer", 1>>},
                   sessionID : {NoStr, <<"session", 1>>},
                   encodedPin : {NoStr, <<"des", "1234", <<"session", 1>>>>},
                   expiration : {0} \cup (StartTime..(MaxTime + 1))]
    /\ storage = [k \in KeySet |-> NoEntry(k)]
    /\ issued = 1
    /\ faults = 0
    /\ pc = [p \in Procs |-> IF p = 1 THEN "ensure" ELSE "off"]
    /\ op = [p \in Procs |-> IF p = 1 THEN "BalanceEnquiry" ELSE "none"]
    /\ fresh = [p \in Procs |-> FALSE]
    /\ resp = [p \in Procs |-> NoReq]
    /\ req = [p \in Procs |-> NoReq]
    /\ err = [p \in Procs |-> NilErr]
    /\ ret = [p \in Procs |-> NoRet]
    /\ events = [p \in Procs |-> <<>>]
    /\ derived = [c \in Clients |-> [baseURL |-> <<"https://a">>, userName |-> <<"u">>, keys |-> NoKeys]]
    /\ bank = [p \in Procs |-> ""]

SessionNext ==
    \/ Tick
    \/ \E p \in Procs : Ensure(p)

SessionSpec == SessionInit /\ [][SessionNext]_vars

\* the key of a store call, "-" for an HTTP call
KeyOf(e) ==
    IF e.kind = "get" THEN e.arg ELSE IF e.kind = "set" THEN e.arg[1] ELSE "-"

\* the kinds and keys of a log's entries, in order
Shape(log) == [i \in 1..Len(log) |-> <<log[i].kind, KeyOf(log[i])>>]

\* the last n entries of a log
LastN(log, n) == SubSeq(log, Len(log) - n + 1, Len(log))

\* the four reads of goroutine p's login all returned a value, none of
\* them empty, the expiry (in seconds) still ahead of the clock
StoreReturnedAll(p) ==
    /\ Len(events[p]) >= 4
    /\ LET g == LastN(events[p], 4)
       IN  /\ Shape(g) = [i \in 1..4 |-> <<"get", CacheKeys[i]>>]
           /\ \A i \in 1..4 : g[i].res.ok
           /\ \A i \in 1..3 : g[i].res.val # NoStr
           /\ g[4].res.val > 0
           /\ now < g[4].res.val * TicksPerSecond

\* C5: when the session in memory is not valid and the store returns all
\* four fields, non-empty and un-expired, ensureUserIsAuthenticated
\* returns success without a login call.
C5_HydratedSessionNeedsNoLogin ==
    [][\A p \in Procs :
         (pc[p] = "check" /\ pc'[p] # "check" /\ StoreReturnedAll(p)) =>
             /\ pc'[p] = "build"
             /\ err'[p] = NilErr
             /\ events'[p] = events[p]]_vars

\* a fresh client found the whole session in the store and is about to
\* build its request, having made no HTTP call
C5_Witness ==
    \E p \in Procs :
        /\ pc[p] = "build"
        /\ Len(events[p]) = 4
        /\ StoreReturnedAll(p)

\* C6: a call that began with a fresh client and an empty store, at its
\* first operation request: before it came four reads, exactly one login
\* call, then exactly one accepted write per cache key, in this order.
C6_LoginThenFourWritesThenRequest ==
    \A p \in Procs :
        ( /\ fresh[p]
          /\ pc[p] \in {"reset", "done"}
          /\ Len(OpRequests(p)) = 1
          /\ IsOp(Last(events[p])) )
        => /\ Shape(events[p]) =
                [i \in 1..4 |-> <<"get", CacheKeys[i]>>]
                \o <<(<<"login", "-">>)>>
                \o [i \in 1..4 |-> <<"set", CacheKeys[i]>>]
                \o <<(<<"op", "-">>)>>
           /\ successCode(events[p][5].res)
           /\ \A i \in 6..9 : events[p][i].res = TRUE

C6_Witness ==
    \E p \in Procs :
        /\ fresh[p]
        /\ pc[p] = "done"
        /\ Len(OpRequests(p)) = 1
        /\ IsOp(Last(events[p]))
        /\ Len(SelectSeq(events[p], IsLogin)) = 1

\* what the claim calls a valid session at the instant t
AllSet(a) == a.authorization # NoStr /\ a.sessionID # NoStr /\ a.encodedPin # NoStr

\* C7 as stated: the session is valid iff the three strings are non-empty,
\* expiresAt is non-zero and now < expiresAt (so invalid at now = expiresAt).
C7_ValidIffBeforeExpiry ==
    [][\A p \in Procs :
         (pc[p] = "ensure" /\ pc'[p] # "ensure") =>
             ( pc'[p] = "build" <=>
               (AllSet(access) /\ access.expiration # 0 /\ now < access.expiration) )]_vars

\* C7 amended: the session is valid iff the three strings are non-empty,
\* expiresAt is non-zero and now is not after expiresAt; it is still valid
\* at the instant now = expiresAt.
C7_ValidIffNotAfterExpiry ==
    [][\A p \in Procs :
         (pc[p] = "ensure" /\ pc'[p] # "ensure") =>
             ( pc'[p] = "build" <=>
               (AllSet(access) /\ access.expiration # 0 /\ now <= access.expiration) )]_vars

\* the session was found valid at the very instant of its expiry
C7_Witness ==
    \E p \in Procs :
        /\ pc[p] = "build"
        /\ events[p] = <<>>
        /\ AllSet(access)
        /\ now = access.expiration

BadAccount(a) == a.isNil \/ a.UserName = "" \/ a.Password = "" \/ a.Pin = ""

\* C8: NewClient with a nil account or one missing its user name, password
\* or PIN returns ErrAccountCredentialsRequired and no client, and touches
\* neither the network nor the store.
C8_BadAccountRejected ==
    [][(made' # made /\ BadAccount(made'.account)) =>
          /\ made'.client = "nil"
          /\ made'.err = ErrAccountCredentialsRequired
          /\ UNCHANGED <<client, account, access, storage, issued, events, pc>>]_vars

C8_Witness ==
    /\ made.client = "nil"
    /\ made.err = ErrAccountCredentialsRequired
    /\ ~made.account.isNil
    /\ made.account.UserName # ""
    /\ made.account.Pin # ""
    /\ made.account.Password = ""

\* the whole seconds in a duration of d ticks
WholeSeconds(d) ==
    CHOOSE n \in 0..d : n * TicksPerSecond <= d /\ d < (n + 1) * TicksPerSecond

\* a call that began fresh has ended, every HTTP call of it was accepted,
\* and an operation request was sent
AcceptedFreshCall(p) ==
    /\ pc[p] = "done"
    /\ fresh[p]
    /\ OpRequests(p) # <<>>
    /\ \A i \in 1..Len(HttpCalls(events[p])) : successCode(HttpCalls(events[p])[i].res)

\* C9: a fresh client with an empty store, login and operation accepted:
\* exactly two HTTP calls, the login and then the operation, and the login
\* form carries the account's user name and password and its session
\* lifetime in whole seconds.
C9_TwoCallsLoginFirst ==
    \A p \in Procs :
        AcceptedFreshCall(p) =>
            LET h == HttpCalls(events[p])
            IN  /\ Kinds(h) = <<"login", "op">>
                /\ h[1].arg.userName = account.UserName
                /\ h[1].arg.password = account.Password
                /\ h[1].arg.sessionLength = WholeSeconds(account.SessionLength)
                /\ h[2].arg.op = op[p]

C9_Witness ==
    \E p \in Procs :
        /\ AcceptedFreshCall(p)
        /\ op[p] = "FetchUSSDTransaction"
        /\ ret[p] = Success
        /\ account.SessionLength = 1

\* C10: when ensureUserIsAuthenticated returned an error, the operation
\* returned that very error and sent no request after it.
C10_EnsureErrorReturnedUnchanged ==
    \A p \in Procs :
        (pc[p] = "done" /\ err[p] # NilErr) =>
            /\ ret[p] = Failure(err[p])
            /\ events[p] # <<>>
            /\ ~IsOp(Last(events[p]))

C10_Witness ==
    \E p \in Procs :
        /\ pc[p] = "done"
        /\ err[p].kind = "ErrLoginFailed"
        /\ op[p] = "FetchTransaction"

\* in this step goroutine p's login request was answered with a status
\* that is not a success
LoginRefused(p) ==
    /\ pc[p] = "post"
    /\ events'[p] # events[p]
    /\ Last(events'[p]).res # 0
    /\ ~successCode(Last(events'[p]).res)

\* C11: when the login endpoint answers with a status other than
\* 200/201/202, login fails with ErrLoginFailed carrying the response body,
\* the operation returns that error, nothing is written to the store and
\* the session in memory stays as hydration left it.
C11_RefusedLoginFailsAndWritesNothing ==
    [][\A p \in Procs :
         LoginRefused(p) =>
             /\ err'[p].kind = "ErrLoginFailed"
             /\ err'[p].detail \in LoginBodies
             /\ ret'[p] = Failure(err'[p])
             /\ pc'[p] = "done"
             /\ storage' = storage
             /\ access' = access]_vars

C11_Witness ==
    \E p \in Procs :
        /\ pc[p] = "done"
        /\ op[p] = "BalanceEnquiry"
        /\ ret[p] = Failure(Error("ErrLoginFailed", "denied"))
        /\ Last(events[p]).kind = "login"
        /\ Last(events[p]).res = StatusUnauthorized

IsSet(e) == e.kind = "set"

\* the writes to the store of goroutine p's current login
Sets(p) == SelectSeq(events[p], IsSet)

\* C12: login writes the four fields in the order token, session id,
\* encrypted PIN, expiry; the first write the store rejects is the last
\* write of that login, and login and the operation return its error.
C12_WritesInOrderStopAtRejection ==
    \A p \in Procs :
        LET w == Sets(p)
        IN  /\ Len(w) <= 4
            /\ \A i \in 1..Len(w) :
                  /\ KeyOf(w[i]) = CacheKeys[i]
                  /\ i < Len(w) => w[i].res = TRUE
            /\ (Len(w) > 0 /\ Last(w).res = FALSE) =>
                  /\ Last(events[p]) = Last(w)
                  /\ pc[p] = "done"
                  /\ err[p].kind = "StorageFailure"
                  /\ ret[p] = Failure(err[p])

\* the store rejected the write of the encrypted PIN: token and session id
\* are in the store, the expiry is not
C12_Witness ==
    \E p \in Procs :
        /\ pc[p] = "done"
        /\ Len(Sets(p)) = 3
        /\ Last(Sets(p)).res = FALSE
        /\ storage["authorizationKey"].ok
        /\ storage["sessionIDKey"].ok
        /\ ~storage["encodedPinKey"].ok
        /\ ~storage["expirationKey"].ok

\* the position after each of login's reads
NextRead(at) ==
    IF at = "getAuthorization" THEN "getSessionID"
    ELSE IF at = "getSessionID" THEN "getEncodedPin"
    ELSE IF at = "getEncodedPin" THEN "getExpiration"
    ELSE "check"

\* in this step one of goroutine p's reads of the store returned an error
ReadMissed(p) ==
    /\ pc[p] \in {"getAuthorization", "getSessionID", "getEncodedPin", "getExpiration"}
    /\ events'[p] # events[p]
    /\ ~Last(events'[p]).res.ok

\* the last four store calls of goroutine p are the four reads, in order
FourReads(p) ==
    /\ Len(events[p]) >= 4
    /\ Shape(LastN(events[p], 4)) = [i \in 1..4 |-> <<"get", CacheKeys[i]>>]

\* C13: a read of the store that misses or fails during hydration is not
\* returned: the session in memory is left as it is, login goes on to the
\* next read, and after all four reads to the validity test.
C13_ReadMissIsNotFatal ==
    /\ [][\A p \in Procs :
            ReadMissed(p) =>
                /\ access' = access
                /\ pc'[p] = NextRead(pc[p])
                /\ err'[p] = NilErr
                /\ ret'[p] = ret[p]]_vars
    /\ [](\A p \in Procs : pc[p] = "check" => FourReads(p))

\* the read of the session id missed while the session in memory had one,
\* and login is at its validity test with that session id still there
C13_Witness ==
    \E p \in Procs :
        /\ pc[p] = "check"
        /\ FourReads(p)
        /\ ~LastN(events[p], 4)[2].res.ok
        /\ LastN(events[p], 4)[3].res.ok
        /\ access.sessionID # NoStr

IsGet(e) == e.kind = "get"

\* the reads of the store of goroutine p's current attempt
Gets(p) == SelectSeq(events[p], IsGet)

\* what the claims call a valid session at the instant t
Valid(a, t) == AllSet(a) /\ a.expiration # 0 /\ t <= a.expiration

\* C14 as stated: every call of an authenticated operation has read the
\* four cache keys from the store before it sends its request, also when
\* the session in memory is valid.
C14_EveryCallReadsTheStore ==
    \A p \in Procs :
        pc[p] = "send" => Shape(Gets(p)) = [i \in 1..4 |-> <<"get", CacheKeys[i]>>]

\* C14 amended: a call reads the four cache keys before it sends its
\* request when the session in memory is not valid at its start; when the
\* session in memory is valid it reads nothing from the store and goes on
\* to build its request.
C14_ReadsTheStoreWhenNotValid ==
    /\ [][\A p \in Procs :
            (pc[p] = "ensure" /\ pc'[p] # "ensure") =>
                IF Valid(access, now)
                THEN pc'[p] = "build" /\ events'[p] = events[p]
                ELSE pc'[p] = "getAuthorization"]_vars
    /\ [](\A p \in Procs :
            pc[p] = "send" =>
                \/ Gets(p) = <<>>
                \/ Shape(Gets(p)) = [i \in 1..4 |-> <<"get", CacheKeys[i]>>])

\* a call on a client whose session in memory is valid is about to send
\* its request, and has read nothing from the store
C14_Witness ==
    \E p \in Procs :
        /\ pc[p] = "send"
        /\ events[p] = <<>>
        /\ Valid(access, now)
        /\ \A k \in KeySet : storage[k].ok

\* the first four calls of goroutine p's call are the four reads, and each
\* returned a value that is not empty
FoundAllInStore(p) ==
    /\ Len(events[p]) >= 4
    /\ LET g == SubSeq(events[p], 1, 4)
       IN  /\ Shape(g) = [i \in 1..4 |-> <<"get", CacheKeys[i]>>]
           /\ \A i \in 1..4 : g[i].res.ok
           /\ \A i \in 1..3 : g[i].res.val # NoStr
           /\ g[4].res.val > 0

\* C15: a client constructed on the base URL, account and store of a
\* client that has logged in finds the session under the same four cache
\* keys: while the entries are there and the expiry read is ahead of the
\* clock, its first operation makes no login call and sends the token and
\* the session id read from the store.
C15_SecondClientUsesStoredSession ==
    \A p \in Procs :
        (FoundAllInStore(p) /\ now < events[p][4].res.val * TicksPerSecond) =>
            /\ pc[p] \in {"check", "build", "send", "reset", "done"}
            /\ Len(events[p]) > 4 =>
                  /\ events[p][5].kind = "op"
                  /\ events[p][5].arg.headers =
                        [Authorization |-> events[p][1].res.val,
                         XSessionID |-> events[p][2].res.val]

\* the second client's first operation has succeeded with one HTTP call,
\* which carried the first login's token and session id
C15_Witness ==
    \E p \in Procs :
        /\ pc[p] = "done"
        /\ ret[p] = Success
        /\ FoundAllInStore(p)
        /\ Len(events[p]) = 5
        /\ events[p][5].arg.headers =
              [Authorization |-> <<"Bearer", 1>>, XSessionID |-> <<"session", 1>>]
        /\ issued = 1

\* the specification of the key derivation alone: two clients, each
\* constructed on any of the base URLs with any of the user names, each
\* deriving its cache keys
KeyInit ==
    /\ now = StartTime
    /\ client = "ok"
    /\ account = [isNil |-> FALSE, UserName |-> "sample", Password |-> "password",
                  Pin |-> "1234", SessionLength |-> 2]
    /\ made = [account |-> account, client |-> "ok", err |-> NilErr]
    /\ access = EmptyAccess
    /\ storage = [k \in KeySet |-> NoEntry(k)]
    /\ issued = 0
    /\ faults = 0
    /\ pc = [p \in Procs |-> IF p = 1 THEN "idle" ELSE "off"]
    /\ op = [p \in Procs |-> "none"]
    /\ fresh = [p \in Procs |-> FALSE]
    /\ resp = [p \in Procs |-> NoReq]
    /\ req = [p \in Procs |-> NoReq]
    /\ err = [p \in Procs |-> NilErr]
    /\ ret = [p \in Procs |-> NoRet]
    /\ events = [p \in Procs |-> <<>>]
    /\ derived \in [Clients -> [baseURL : BaseURLs, userName : UserNames, keys : {NoKeys}]]
    /\ bank = [p \in Procs |-> ""]

\* client c calls makeAuthCacheKeys
MakeAuthCacheKeys(c) ==
    /\ derived[c].keys = NoKeys
    /\ derived' = [derived EXCEPT ![c].keys = makeAuthCacheKeys(derived[c].baseURL, derived[c].userName)]
    /\ UNCHANGED <<bank, now, client, made, account, access, storage, issued, faults, procVars>>

KeyNext == \E c \in Clients : MakeAuthCacheKeys(c)

KeySpec == KeyInit /\ [][KeyNext]_vars

\* the four keys of a key set
KeysOf(k) == {k.authorizationKey, k.sessionIDKey, k.expirationKey, k.encodedPinKey}

\* C16: two clients whose (base URL, user name) pairs differ derive cache
\* keys none of which is a key of the other.
C16_DistinctPairsNeverCollide ==
    \A c, d \in Clients :
        ( /\ derived[c].keys # NoKeys
          /\ derived[d].keys # NoKeys
          /\ <<derived[c].baseURL, derived[c].userName>> # <<derived[d].baseURL, derived[d].userName>> )
        => KeysOf(derived[c].keys) \cap KeysOf(derived[d].keys) = {}

\* the specification of two operations racing through
\* ensureUserIsAuthenticated on one client: both have been called on a
\* client just constructed over an empty store, and each runs up to the
\* return of ensureUserIsAuthenticated
RaceInit ==
    /\ now = StartTime
    /\ client = "ok"
    /\ account = [isNil |-> FALSE, UserName |-> "sample", Password |-> "password",
                  Pin |-> "1234", SessionLength |-> 2]
    /\ made = [account |-> account, client |-> "ok", err |-> NilErr]
    /\ access = EmptyAccess
    /\ storage = [k \in KeySet |-> NoEntry(k)]
    /\ issued = 0
    /\ faults = 0
    /\ pc = [p \in Procs |-> "ensure"]
    /\ op = [p \in Procs |-> IF p = 1 THEN "BalanceEnquiry" ELSE "FetchTransaction"]
    /\ fresh = [p \in Procs |-> TRUE]
    /\ resp = [p \in Procs |-> NoReq]
    /\ req = [p \in Procs |-> NoReq]
    /\ err = [p \in Procs |-> NilErr]
    /\ ret = [p \in Procs |-> NoRet]
    /\ events = [p \in Procs |-> <<>>]
    /\ derived = [c \in Clients |-> [baseURL |-> <<"https://a">>, userName |-> <<"u">>, keys |-> NoKeys]]
    /\ bank = [p \in Procs |-> ""]

\* a step of goroutine p inside ensureUserIsAuthenticated
LoginStep(p) ==
    \/ Ensure(p)
    \/ GetAuthorization(p)
    \/ GetSessionID(p)
    \/ GetEncodedPin(p)
    \/ GetExpiration(p)
    \/ Check(p)
    \/ Post(p)
    \/ SetAuthorization(p)
    \/ SetSessionID(p)
    \/ SetPin(p)
    \/ SetExpiration(p)
    \/ PutAuthorization(p)
    \/ PutSessionID(p)
    \/ PutEncodedPin(p)
    \/ PutExpiration(p)

RaceNext ==
    \/ \E p \in Procs : LoginStep(p)
    \/ Tick

RaceSpec == RaceInit /\ [][RaceNext]_vars

\* the specification of a client constructed over a store that holds the
\* session another client of the same account persisted a second ago,
\* except the token, whose entry the cache has dropped
EvictedInit ==
    /\ now = StartTime
    /\ client = "ok"
    /\ account = [isNil |-> FALSE, UserName |-> "sample", Password |-> "password",
                  Pin |-> "1234", SessionLength |-> 2]
    /\ made = [account |-> account, client |-> "ok", err |-> NilErr]
    /\ access = EmptyAccess
    /\ storage =
         [k \in KeySet |->
            IF k = "authorizationKey" THEN NoEntry(k)
            ELSE [ok |-> TRUE,
                  val |-> IF k = "sessionIDKey" THEN <<"session", 1>>
                          ELSE IF k = "encodedPinKey"
                               THEN DesEncrypt(account.Pin, <<"session", 1>>, TRUE).hexStr
                          ELSE Unix(StartTime),
                  until |-> StartTime + 1]]
    /\ issued = 1
    /\ faults = 0
    /\ pc = [p \in Procs |-> IF p = 1 THEN "idle" ELSE "off"]
    /\ op = [p \in Procs |-> "none"]
    /\ fresh = [p \in Procs |-> FALSE]
    /\ resp = [p \in Procs |-> NoReq]
    /\ req = [p \in Procs |-> NoReq]
    /\ err = [p \in Procs |-> NilErr]
    /\ ret = [p \in Procs |-> NoRet]
    /\ events = [p \in Procs |-> <<>>]
    /\ derived = [c \in Clients |-> [baseURL |-> <<"https://a">>, userName |-> <<"u">>, keys |-> NoKeys]]
    /\ bank = [p \in Procs |-> ""]

EvictedSpec == EvictedInit /\ [][Next]_vars

\* no goroutine is inside login
NoLoginRunning ==
    \A p \in Procs : pc[p] \in {"idle", "off", "ensure", "build", "send", "reset", "done"}

\* C17: whenever the session in memory is valid (and no login is in the
\* middle of replacing it), its encrypted PIN is the account's PIN
\* encrypted under the session id the session holds.
C17_ValidSessionPinMatchesSessionID ==
    (NoLoginRunning /\ Valid(access, now)) =>
        access.encodedPin = DesEncrypt(account.Pin, access.sessionID, TRUE).hexStr

\* every login call made so far was answered with a success status
LoginsAccepted ==
    \A q \in Procs : \A i \in 1..Len(events[q]) :
        IsLogin(events[q][i]) => successCode(events[q][i].res)

\* C18: two operations racing through ensureUserIsAuthenticated: as long
\* as the server accepts the logins and neither store nor cipher fails,
\* neither call returns an error, and a call that has not returned always
\* has a step to take.
C18_RacingLoginsBothSucceed ==
    \A p \in Procs :
        /\ (faults = 0 /\ LoginsAccepted) => (pc[p] # "done" /\ err[p] = NilErr)
        /\ pc[p] \notin {"build", "done"} => ENABLED LoginStep(p)

\* both calls found the session invalid, both logged in, and both
\* ensureUserIsAuthenticated calls have returned nil
C18_Witness ==
    /\ \A p \in Procs :
         /\ pc[p] = "build"
         /\ err[p] = NilErr
         /\ Len(SelectSeq(events[p], IsLogin)) = 1
    /\ issued = 2
    /\ faults = 0

\* C19: the request an operation builds after ensureUserIsAuthenticated
\* carries the token of the session in memory as Authorization and its
\* session id as X-SessionID, and is sent with these headers.
C19_RequestCarriesSession ==
    [][\A p \in Procs :
         /\ (pc[p] = "build" /\ pc'[p] = "send") =>
               req'[p] = [Authorization |-> access.authorization,
                          XSessionID |-> access.sessionID]
         /\ (pc[p] = "send" /\ events'[p] # events[p]) =>
               Last(events'[p]).arg.headers = req[p]]_vars

\* an operation has sent its request with the token and the session id of
\* the second login
C19_Witness ==
    \E p \in Procs :
        /\ pc[p] = "done"
        /\ ret[p] = Success
        /\ Last(events[p]).kind = "op"
        /\ Last(events[p]).arg.headers =
              [Authorization |-> <<"Bearer", 2>>, XSessionID |-> <<"session", 2>>]

\* login has just returned nil to goroutine p after its four writes
JustLoggedIn(p) ==
    /\ pc[p] = "build"
    /\ Len(Sets(p)) = 4
    /\ Last(events[p]) = Sets(p)[4]
    /\ Last(events[p]).res = TRUE

\* the field of the session written under each cache key, the expiry in
\* whole seconds
FieldWritten(a, i) ==
    IF i = 1 THEN a.authorization
    ELSE IF i = 2 THEN a.sessionID
    ELSE IF i = 3 THEN a.encodedPin
    ELSE WholeSeconds(a.expiration)

\* C20: a successful login replaces the whole session: token and session
\* id are taken from the response, the PIN is encrypted under that session
\* id, the expiry is the clock at that moment plus the session lifetime,
\* and each of the four is written to the store under its key (the expiry
\* in whole seconds) with the session lifetime as TTL, where it stays until
\* that TTL runs out.
C20_LoginReplacesSessionAndStore ==
    /\ [][\A p \in Procs :
            /\ (pc[p] = "setAuthorization" /\ pc'[p] # pc[p]) =>
                  access'.authorization = resp[p].Authorization
            /\ (pc[p] = "setSessionID" /\ pc'[p] # pc[p]) =>
                  access'.sessionID = resp[p].XSessionID
            /\ (pc[p] = "setExpiration" /\ pc'[p] # pc[p]) =>
                  access'.expiration = now + account.SessionLength]_vars
    /\ [](\A p \in Procs :
            JustLoggedIn(p) =>
                /\ access.encodedPin = DesEncrypt(account.Pin, access.sessionID, TRUE).hexStr
                /\ access.expiration <= now + account.SessionLength
                /\ \A i \in 1..4 :
                     /\ Sets(p)[i].res = TRUE
                     /\ Sets(p)[i].arg =
                          <<CacheKeys[i], FieldWritten(access, i), account.SessionLength>>
                     /\ IF storage[CacheKeys[i]].ok
                        THEN /\ storage[CacheKeys[i]].val = FieldWritten(access, i)
                             /\ storage[CacheKeys[i]].until > now
                             /\ storage[CacheKeys[i]].until <= now + account.SessionLength
                        ELSE now >= StartTime + account.SessionLength)

\* the second login has just returned: its session is in memory and under
\* the four keys of the store
C20_Witness ==
    \E p \in Procs :
        /\ JustLoggedIn(p)
        /\ access.authorization = <<"Bearer", 2>>
        /\ access.sessionID = <<"session", 2>>
        /\ \A k \in KeySet : storage[k].ok
        /\ storage["expirationKey"].val = WholeSeconds(access.expiration)
\* the index of the last read of the store in goroutine p's log, 0 if none
LastGet(p) ==
    CHOOSE i \in 0..Len(events[p]) :
        /\ i = 0 \/ IsGet(events[p][i])
        /\ \A j \in (i + 1)..Len(events[p]) : ~IsGet(events[p][j])

\* the four reads of goroutine p's last hydration
Reads(p) == SubSeq(events[p], LastGet(p) - 3, LastGet(p))

\* the calls goroutine p has made since its last hydration
SinceReads(p) == SubSeq(events[p], LastGet(p) + 1, Len(events[p]))

\* the session four reads leave in a memory that was empty
HydratedFromEmpty(g) ==
    [authorization |-> IF Taken(CacheKeys[1], g[1].res) THEN g[1].res.val ELSE NoStr,
     sessionID |-> IF Taken(CacheKeys[2], g[2].res) THEN g[2].res.val ELSE NoStr,
     encodedPin |-> IF Taken(CacheKeys[3], g[3].res) THEN g[3].res.val ELSE NoStr,
     expiration |-> IF Taken(CacheKeys[4], g[4].res) THEN TimeUnix(g[4].res.val) ELSE 0]

\* at least one of four reads returned nothing
SomeLost(g) == \E i \in 1..4 : ~Taken(CacheKeys[i], g[i].res)

\* goroutine p has hydrated an empty session from a store that had lost
\* at least one field
PartialHydration(p) ==
    /\ FourReads(p)
    /\ SomeLost(LastN(events[p], 4))
    /\ access = HydratedFromEmpty(LastN(events[p], 4))

\* C21: the session in memory empty and the store without at least one of
\* the four fields: after hydration login finds the session invalid and
\* goes on to the login call; it makes one login call, and when it returns
\* nil it has written all four fields of the new session to the store.
C21_PartialStoreLogsInOnce ==
    /\ [][\A p \in Procs :
            (pc[p] = "check" /\ pc'[p] # "check" /\ PartialHydration(p)) =>
                /\ pc'[p] = "post"
                /\ events'[p] = events[p]]_vars
    /\ [](\A p \in Procs :
            ( /\ pc[p] = "build"
              /\ LastGet(p) >= 4
              /\ SomeLost(Reads(p))
              /\ SinceReads(p) # <<>>
              /\ Len(HttpCalls(events[p])) < MaxCalls )
            => /\ Shape(SinceReads(p)) =
                    <<(<<"login", "-">>)>> \o [i \in 1..4 |-> <<"set", CacheKeys[i]>>]
               /\ successCode(SinceReads(p)[1].res)
               /\ \A i \in 1..4 :
                    /\ SinceReads(p)[i + 1].res = TRUE
                    /\ SinceReads(p)[i + 1].arg =
                         <<CacheKeys[i], FieldWritten(access, i), account.SessionLength>>)

\* after a 403 and the reset the store returned the session id but not
\* the token; one login followed, and its four writes
C21_Witness ==
    \E p \in Procs :
        /\ pc[p] = "build"
        /\ Kinds(events[p]) =
              <<"op", "get", "get", "get", "get", "login", "set", "set", "set", "set">>
        /\ ~Reads(p)[1].res.ok
        /\ Reads(p)[2].res.ok
        /\ Reads(p)[3].res.ok
        /\ Reads(p)[4].res.ok
        /\ access.sessionID = <<"session", 2>>
\* in this step the cipher failed to encrypt the PIN for goroutine p's login
EncryptionFailed(p) ==
    /\ pc[p] = "setPin"
    /\ pc'[p] # "setPin"
    /\ faults' # faults

\* C22: when the encryption of the PIN fails during login, login returns
\* the cipher's error as it is, the operation returns it to its caller,
\* nothing is written to the store and no operation request is sent.
C22_EncryptionFailureAbortsLogin ==
    /\ [][\A p \in Procs :
            EncryptionFailed(p) =>
                /\ err'[p] = DesEncrypt(account.Pin, access.sessionID, FALSE).err
                /\ ret'[p] = Failure(err'[p])
                /\ pc'[p] = "done"
                /\ storage' = storage
                /\ events'[p] = events[p]]_vars
    /\ [](\A p \in Procs :
            (pc[p] = "done" /\ err[p].kind = "EncryptionFailure") =>
                /\ Sets(p) = <<>>
                /\ ~IsOp(Last(events[p])))

\* GenerateUSSD has returned the cipher's error after an accepted login,
\* and the store is still empty
C22_Witness ==
    \E p \in Procs :
        /\ pc[p] = "done"
        /\ op[p] = "GenerateUSSD"
        /\ ret[p] = Failure(Error("EncryptionFailure", ""))
        /\ Last(events[p]).kind = "login"
        /\ successCode(Last(events[p]).res)
        /\ \A k \in KeySet : ~storage[k].ok
\* the positions of login's four writes to the store
Puts == {"putAuthorization", "putSessionID", "putEncodedPin", "putExpiration"}

\* C23: the reset after a 403 clears the session in memory and leaves the
\* four entries of the store as they are; the store changes only by a
\* write of login (and by its own timers), and no step of the library
\* removes an entry the store holds.
C23_ResetLeavesStore ==
    [][/\ \A p \in Procs :
            (pc[p] = "reset" /\ pc'[p] # "reset") =>
                /\ storage' = storage
                /\ access' = EmptyAccess
       /\ now' = now =>
            /\ \A k \in KeySet : storage[k].ok => storage'[k].ok
            /\ storage' # storage => \E p \in Procs : pc[p] \in Puts /\ pc'[p] # pc[p]]_vars

\* an operation answered 403 has reset the session in memory, and the
\* store still holds the four entries of that session
C23_Witness ==
    \E p \in Procs :
        /\ pc[p] = "ensure"
        /\ events[p] # <<>>
        /\ Last(events[p]).res = StatusForbidden
        /\ access = EmptyAccess
        /\ \A k \in KeySet : storage[k].ok
        /\ storage["sessionIDKey"].val = Last(events[p]).arg.headers.XSessionID
\* the specification of the reset alone: an operation that retries on a
\* 403 has just been answered 403, the session in memory any combination
\* of empty and set fields, the clock anywhere
ResetInit ==
    /\ now \in StartTime..MaxTime
    /\ client = "ok"
    /\ account = [isNil |-> FALSE, UserName |-> "sample", Password |-> "password",
                  Pin |-> "1234", SessionLength |-> 2]
    /\ made = [account |-> account, client |-> "ok", err |-> NilErr]
    /\ access \in [authorization : {NoStr, <<"Bearer", 1>>},
                   sessionID : {NoStr, <<"session", 1>>},
                   encodedPin : {NoStr, <<"des", "1234", <<"session", 1>>>>},
                   expiration : {0} \cup (StartTime..(MaxTime + 1))]
    /\ storage = [k \in KeySet |-> NoEntry(k)]
    /\ issued = 1
    /\ faults = 0
    /\ pc = [p \in Procs |-> IF p = 1 THEN "reset" ELSE "off"]
    /\ op \in [Procs -> {o \in Ops : RetriesOnForbidden(o)} \cup {"none"}]
    /\ op[2] = "none"
    /\ op[1] # "none"
    /\ fresh = [p \in Procs |-> FALSE]
    /\ resp = [p \in Procs |-> NoReq]
    /\ req = [p \in Procs |-> IF p = 1 THEN appendAuthHeaders(access) ELSE NoReq]
    /\ err = [p \in Procs |-> NilErr]
    /\ ret = [p \in Procs |-> NoRet]
    /\ events = [p \in Procs |->
                   IF p = 1
                   THEN <<Event("op", [op |-> op[p], headers |-> req[p]], StatusForbidden)>>
                   ELSE <<>>]
    /\ derived = [c \in Clients |-> [baseURL |-> <<"https://a">>, userName |-> <<"u">>, keys |-> NoKeys]]
    /\ bank = [p \in Procs |-> ""]

ResetNext ==
    \/ Tick
    \/ \E p \in Procs : Reset(p)
    \/ \E p \in Procs : Ensure(p)

ResetSpec == ResetInit /\ [][ResetNext]_vars

\* C24: reset sets token, session id, encrypted PIN and expiry to their
\* empty and zero values whatever they were, the session is not valid
\* right after it, and a second reset changes nothing more.
C24_ResetClearsAndIsIdempotent ==
    /\ [](/\ reset(access) = EmptyAccess
          /\ hasExpired(reset(access), now)
          /\ reset(reset(access)) = reset(access))
    /\ [][\A p \in Procs :
            (pc[p] = "reset" /\ pc'[p] # "reset") =>
                /\ access' = EmptyAccess
                /\ hasExpired(access', now')
                /\ reset(access') = access']_vars
    /\ [][\A p \in Procs :
            (pc[p] = "ensure" /\ pc'[p] # "ensure" /\ access = EmptyAccess) =>
                pc'[p] = "getAuthorization"]_vars

\* a session whose token and session id went out with the request that
\* was answered 403 has been reset
C24_Witness ==
    \E p \in Procs :
        /\ pc[p] = "ensure"
        /\ access = EmptyAccess
        /\ events[p] # <<>>
        /\ events[p][1].arg.headers =
              [Authorization |-> <<"Bearer", 1>>, XSessionID |-> <<"session", 1>>]
\* in this step ensureUserIsAuthenticated returned nil to goroutine p
EnsureSucceeded(p) ==
    /\ pc[p] # "build"
    /\ pc'[p] = "build"
    /\ err'[p] = NilErr

\* C25: whenever ensureUserIsAuthenticated returns nil, the session in
\* memory is valid at that moment: token, session id and encrypted PIN not
\* empty, the expiry not behind the clock.
C25_SuccessMeansValidSession ==
    [][\A p \in Procs : EnsureSucceeded(p) => Valid(access', now')]_vars
\* C26: whenever ensureUserIsAuthenticated has returned an error to an
\* operation, the session in memory is not valid (so that the next
\* operation logs in again).
C26_FailureLeavesSessionInvalid ==
    \A p \in Procs :
        (pc[p] = "done" /\ err[p] # NilErr) => ~Valid(access, now)
\* the specification of two operations racing on one client up to the
\* request each builds: both have been called on a client just
\* constructed over an empty store; store, cipher and login endpoint are
\* in order (the faults a behaviour may have are behind it)
RequestRaceInit ==
    /\ now = StartTime
    /\ client = "ok"
    /\ account = [isNil |-> FALSE, UserName |-> "sample", Password |-> "password",
                  Pin |-> "1234", SessionLength |-> 2]
    /\ made = [account |-> account, client |-> "ok", err |-> NilErr]
    /\ access = EmptyAccess
    /\ storage = [k \in KeySet |-> NoEntry(k)]
    /\ issued = 0
    /\ faults = MaxFaults
    /\ pc = [p \in Procs |-> "ensure"]
    /\ op = [p \in Procs |-> IF p = 1 THEN "BalanceEnquiry" ELSE "FetchTransaction"]
    /\ fresh = [p \in Procs |-> TRUE]
    /\ resp = [p \in Procs |-> NoReq]
    /\ req = [p \in Procs |-> NoReq]
    /\ err = [p \in Procs |-> NilErr]
    /\ ret = [p \in Procs |-> NoRet]
    /\ events = [p \in Procs |-> <<>>]
    /\ derived = [c \in Clients |-> [baseURL |-> <<"https://a">>, userName |-> <<"u">>, keys |-> NoKeys]]
    /\ bank = [p \in Procs |-> ""]

\* a step of goroutine p inside its operation, up to its request
OpStep(p) ==
    \/ LoginStep(p)
    \/ Build(p)

RequestRaceNext ==
    \/ \E p \in Procs : OpStep(p)
    \/ Tick

RequestRaceSpec == RequestRaceInit /\ [][RequestRaceNext]_vars

\* token, session id and encrypted PIN are those of the login that was
\* issued session n, or empty, or what a racing access tore
OfLogin(n, token, sessionID, encodedPin) ==
    /\ token \in {NoStr, Torn, <<"Bearer", n>>}
    /\ sessionID \in {NoStr, Torn, <<"session", n>>}
    /\ encodedPin \in {NoStr, Torn, DesEncrypt(account.Pin, <<"session", n>>, TRUE).hexStr}

\* C27: every request an operation builds carries a token and a session
\* id issued by one and the same login response, and the encrypted PIN of
\* the session in memory at that moment is that of the same login: no
\* request mixes the fields of two logins (stated for the values that no
\* racing access has torn).
C27_RequestFromOneLogin ==
    [][\A p \in Procs :
         (pc[p] = "build" /\ pc'[p] = "send") =>
             \E n \in 1..MaxLogins :
                 OfLogin(n, req'[p].Authorization, req'[p].XSessionID, access.encodedPin)]_vars
\* goroutine p's login has made its four writes, all accepted, and returned
LoginCompleted(p) ==
    /\ pc[p] = "build"
    /\ Len(Sets(p)) = 4
    /\ \A i \in 1..4 : Sets(p)[i].res = TRUE

\* C28: after two logins racing on one client and store have both
\* completed with every write accepted, the entries of the store under
\* the token, session id and encrypted PIN keys are those of one and the
\* same login (stated for the values that no racing access has torn).
C28_StoreHoldsOneLogin ==
    ( /\ \A p \in Procs : LoginCompleted(p)
      /\ issued = 2
      /\ faults = 0
      /\ \A k \in KeySet : storage[k].ok )
    => \E n \in 1..MaxLogins :
           OfLogin(n, storage["authorizationKey"].val, storage["sessionIDKey"].val,
                   storage["encodedPinKey"].val)
\* in this step goroutine p called GenerateUSSD
GenerateUSSDCalled(p) ==
    /\ pc[p] = "idle"
    /\ pc'[p] # "idle"
    /\ op'[p] = "GenerateUSSD"

\* C29: IsBankSupportedOnUSSD is true of a bank code exactly when the code
\* is a key of BanksSupportedOnUssd, and GenerateUSSD called with a code
\* that is not a key returns ErrBankNotSupportedOnUSSD at once, with no
\* login and no request.
C29_UnsupportedBankRejected ==
    [][\A p \in Procs :
         GenerateUSSDCalled(p) =>
             /\ IsBankSupportedOnUSSD(bank'[p]) <=> bank'[p] \in BanksSupportedOnUssd
             /\ bank'[p] \notin BanksSupportedOnUssd =>
                   /\ pc'[p] = "done"
                   /\ ret'[p] = Failure(ErrBankNotSupportedOnUSSD)
                   /\ events'[p] = <<>>]_vars
====
